---- MODULE Spec2Model ----
(***************************************************************************)
(* Convergence diagnostics of "6. Model Checking.ipynb".                   *)
(*                                                                         *)
(* The notebook states the Gelman-Rubin statistic as four formulas         *)
(* (B, W, Var-hat, R-hat) and calls gelman_rubin(bioassay_trace), which    *)
(* evaluates them once per stochastic node of the model (alpha, beta).     *)
(* The model evaluates the formulas exactly: samples are integers, every   *)
(* intermediate value is a reduced fraction, and R-hat, the square root    *)
(* of a fraction, is kept in the exact form (a/b)*sqrt(c), c squarefree.   *)
(***************************************************************************)
EXTENDS Integers, Sequences, FiniteSets, TLC

VARIABLES
    chains,     \* bioassay_trace: for each stochastic node, its m chains
    build,      \* the arithmetic the formulas run on, once a call has met it
    pc,         \* for each node, the formula gelman_rubin evaluates next
    trail,      \* for each node, the formulas evaluated so far
    B, W, Vhat, \* for each node, the intermediate values
    rhat,       \* for each node, R-hat
    outcome,    \* for each node, how the call ended
    tr,         \* the chain passed to geweke
    gargs,      \* geweke's arguments first, last, intervals
    gpc,        \* geweke: not called, computing z-scores, returned
    z,          \* geweke: the (start index, z-score) pairs so far
    zoutcome,   \* geweke: how the call ended
    nb          \* the notebook session: the cells run, bioassay_trace, and
                \* what the diagnostics cells were called with

grvars == <<pc, trail, B, W, Vhat, rhat, outcome>>
gwvars == <<gpc, z, zoutcome>>
inputs == <<chains, tr, gargs, nb>>
vars == <<inputs, build, grvars, gwvars>>

(***************************************************************************)
(* Bounds of the model.                                                    *)
(***************************************************************************)
MaxChains == 2
MaxLen == 2
MaxTrace == 4
MaxIntervals == 2

\* The stochastic nodes of bioassay_model: one R-hat is computed for each.
Params == {"alpha", "beta"}

\* Sample values of the enumerated traces.
SampleValues == {0, 1}

(***************************************************************************)
(* Exact arithmetic on fractions [num, den], den > 0, in lowest terms.     *)
(***************************************************************************)
Abs(i) == IF i < 0 THEN -i ELSE i

RECURSIVE GCD(_, _)
GCD(i, j) == IF j = 0 THEN i ELSE GCD(j, i % j)

Rat(i, j) ==
    LET g == GCD(Abs(i), Abs(j))
        s == IF j < 0 THEN -1 ELSE 1
    IN  [num |-> (s * i) \div g, den |-> (s * j) \div g]

RatInt(i) == [num |-> i, den |-> 1]
RatAdd(x, y) == Rat(x.num * y.den + y.num * x.den, x.den * y.den)
RatSub(x, y) == Rat(x.num * y.den - y.num * x.den, x.den * y.den)
RatMul(x, y) == Rat(x.num * y.num, x.den * y.den)
RatDiv(x, y) == Rat(x.num * y.den, x.den * y.num)
RatSq(x) == RatMul(x, x)
RatIsZero(x) == x.num = 0

RECURSIVE SumInts(_)
SumInts(s) == IF s = <<>> THEN 0 ELSE Head(s) + SumInts(Tail(s))

RECURSIVE SumRats(_)
SumRats(s) == IF s = <<>> THEN RatInt(0) ELSE RatAdd(Head(s), SumRats(Tail(s)))

\* The non-negative square root of the fraction q >= 0, as (a/b)*sqrt(c)
\* with c squarefree: sqrt(p/d) = sqrt(p*d)/d and p*d = s*s*c.
LargestSquare(N) ==
    LET roots == {k \in 1..N : k <= N \div k /\ N % (k * k) = 0}
    IN  CHOOSE k \in roots : \A j \in roots : j <= k

SqrtRat(q) ==
    IF q.num <= 0 THEN [a |-> 0, b |-> 1, c |-> 1]
    ELSE LET N == q.num * q.den
             s == LargestSquare(N)
             f == Rat(s, q.den)
         IN  [a |-> f.num, b |-> f.den, c |-> N \div (s * s)]

(***************************************************************************)
(* The Gelman-Rubin formulas, for m chains of length n.                    *)
(***************************************************************************)
NumChains(x) == Len(x)
ChainLen(x) == Len(x[1])

\* theta-bar_.j : the mean of chain j
ChainMean(x, j) == Rat(SumInts(x[j]), ChainLen(x))

\* theta-bar_.. : the mean of all samples of all chains
GrandMean(x) ==
    Rat(SumInts([j \in 1..NumChains(x) |-> SumInts(x[j])]),
        NumChains(x) * ChainLen(x))

\* the chain means squared as they are, the grand mean not subtracted
BetweenSum_Uncentred(x) ==
    SumRats([j \in 1..NumChains(x) |-> RatSq(ChainMean(x, j))])

\* sum_j (theta-bar_.j - theta-bar_..)^2
BetweenSum(x) ==
    SumRats([j \in 1..NumChains(x) |->
                RatSq(RatSub(ChainMean(x, j), GrandMean(x)))])

\* sum_i (theta_ij - theta-bar_.j)^2
ChainSS(x, j) ==
    SumRats([i \in 1..ChainLen(x) |->
                RatSq(RatSub(RatInt(x[j][i]), ChainMean(x, j)))])

\* B = n/(m-1) * sum_j (theta-bar_.j - theta-bar_..)^2      (m > 1)
BetweenVar(x) ==
    RatMul(Rat(ChainLen(x), NumChains(x) - 1), BetweenSum(x))

\* the chain variances taken with denominator n
WithinVar_DenomN(x) ==
    RatMul(Rat(1, NumChains(x)),
           SumRats([j \in 1..NumChains(x) |->
                       RatMul(Rat(1, ChainLen(x)), ChainSS(x, j))]))

\* the variance of the first chain taken for the mean over the chains
WithinVar_FirstChain(x) == RatMul(Rat(1, ChainLen(x) - 1), ChainSS(x, 1))

\* W = 1/m * sum_j [ 1/(n-1) * sum_i (theta_ij - theta-bar_.j)^2 ]   (n > 1)
WithinVar(x) ==
    RatMul(Rat(1, NumChains(x)),
           SumRats([j \in 1..NumChains(x) |->
                       RatMul(Rat(1, ChainLen(x) - 1), ChainSS(x, j))]))

\* W taken whole, without the factor (n-1)/n
VarHat_WholeW(n, w, b) == RatAdd(w, RatMul(Rat(1, n), b))

\* B subtracted
VarHat_Minus(n, w, b) ==
    RatSub(RatMul(Rat(n - 1, n), w), RatMul(Rat(1, n), b))

\* Var-hat = (n-1)/n * W + 1/n * B
VarHat(n, w, b) ==
    RatAdd(RatMul(Rat(n - 1, n), w), RatMul(Rat(1, n), b))

\* R-hat = sqrt(Var-hat / W)                                 (W # 0)
\* R-hat, but with the ratio upside down
RHat_Inverted(v, w) == SqrtRat(RatDiv(w, v))

RHat(v, w) == SqrtRat(RatDiv(v, w))

\* What a division by zero delivers: the arithmetic either traps, or is
\* IEEE non-stop arithmetic, where x/0 is inf, and inf*0 and 0/0 are nan.
DivByZero(bld, restIsZero) ==
    IF bld = "trap" THEN "ZeroDivisionError"
    ELSE IF restIsZero THEN "nan" ELSE "inf"

\* The arithmetic is one and the same for every call; which of the two it
\* is shows at the first division by zero.
Builds(bld) == IF bld = "any" THEN {"trap", "ieee"} ELSE {bld}

(***************************************************************************)
(* The traces.                                                             *)
(***************************************************************************)
ChainsOfLen(n) == [1..n -> SampleValues]

ChainSets ==
    UNION {[1..m -> ChainsOfLen(n)] : m \in 1..MaxChains, n \in 1..MaxLen}

Demo ==
    { << <<1, 2, 3>>, <<1, 2, 4>> >>,
      << <<1, 1, 1>>, <<100, 100, 100>> >> }

Scenarios ==
    { << <<1, 2, 3>>, <<1, 2, 3>> >>,
      << <<1, 1, 1>>, <<100, 100, 100>> >>,
      << <<1, 2, 3>> >>,
      << <<0, 2, 4>>, <<1, 1, 4>>, <<3, 5, 7>> >> }

Permute(x, f) == [j \in 1..Len(x) |-> x[f[j]]]
ShiftChain(x, k, c) ==
    [j \in 1..Len(x) |->
        IF j = k THEN [i \in 1..Len(x[j]) |-> x[j][i] + c] ELSE x[j]]
ShiftAll(x, c) == [j \in 1..Len(x) |-> [i \in 1..Len(x[j]) |-> x[j][i] + c]]

\* The constants added to the samples.
Shifts == {-1, 2}

\* Traces of the same shape as x: its chains reordered, every sample moved
\* by a constant, one chain moved by a constant.
Variants(x) ==
    {Permute(x, f) : f \in Permutations(1..Len(x))}
    \cup {ShiftAll(x, c) : c \in Shifts}
    \cup {ShiftChain(x, k, c) : k \in 1..Len(x), c \in Shifts}

None == <<>>
Some(v) == <<v>>
Val(o) == o[1]

(***************************************************************************)
(* geweke(x, first, last, intervals): for each of `intervals` start        *)
(* indices along the chain, the z-score of the initial segment (the        *)
(* fraction `first` of the chain from the start index on) against the end  *)
(* of the chain (the fraction `last` of it).  Indices count from 0.        *)
(***************************************************************************)
Floor(q) == q.num \div q.den

\* the k-th of `intervals` start indices over the part of the chain that
\* is not in the last `last` of it
StartIndex(n, args, k) ==
    LET lastStart == Floor(RatMul(RatSub(RatInt(1), args.last), RatInt(n)))
    IN  ((k - 1) * lastStart) \div args.intervals

\* a: the early interval
FirstSlice(x, args, start) ==
    SubSeq(x, start + 1,
           start + Floor(RatMul(args.first, RatInt(Len(x) - start))))

\* b: the late interval
LastSlice(x, args, start) ==
    SubSeq(x, Len(x) - Floor(RatMul(args.last, RatInt(Len(x) - start))) + 1,
           Len(x))

\* the sum of a segment, by halves: a segment of the notebook's chain has
\* a thousand samples
RECURSIVE SumSeg(_)
SumSeg(s) ==
    IF Len(s) = 0 THEN 0
    ELSE IF Len(s) = 1 THEN s[1]
    ELSE LET h == Len(s) \div 2
         IN  SumSeg(SubSeq(s, 1, h)) + SumSeg(SubSeq(s, h + 1, Len(s)))

SegMean(seg) == Rat(SumSeg(seg), Len(seg))

\* z = (mean_a - mean_b) / sqrt(S_a(0) + S_b(0)): the difference of the
\* means, and the two segments whose spectral density estimates divide it
ZScore(a, b) ==
    [defined |-> TRUE, diff |-> RatSub(SegMean(a), SegMean(b)), a |-> a, b |-> b]

\* the mean of an empty segment is 0/0
ZNan(a, b) == [defined |-> FALSE, diff |-> RatInt(0), a |-> a, b |-> b]

Traces == UNION {[1..n -> SampleValues] : n \in 1..MaxTrace}

GewekeArgs ==
    [first : {Rat(1, 4), Rat(1, 2)}, last : {Rat(1, 2)},
     intervals : 1..MaxIntervals]

\* tr = sample(2000); z = geweke(tr, intervals=15)
GewekeDraws == 2000
NotebookIntervals == 15
LongTrace == [i \in 1..GewekeDraws |-> i % 2]

NotebookGewekeArgs ==
    [first : {Rat(1, 4), Rat(1, 2)}, last : {Rat(1, 2)},
     intervals : {NotebookIntervals}]

\* first, last and intervals as a caller may pass them
GewekeArgsAny ==
    [first : {Rat(0, 1), Rat(1, 4), Rat(1, 2)}, last : {Rat(1, 2)},
     intervals : 1..MaxIntervals]

InitCalls ==
    /\ build = "any"
    /\ pc = [p \in Params |-> "B"]
    /\ trail = [p \in Params |-> <<>>]
    /\ B = [p \in Params |-> None]
    /\ W = [p \in Params |-> None]
    /\ Vhat = [p \in Params |-> None]
    /\ rhat = [p \in Params |-> None]
    /\ outcome = [p \in Params |-> "none"]
    /\ z = <<>>
    /\ zoutcome = "none"

\* gelman_rubin(bioassay_trace) alone
InitGelmanRubin ==
    /\ \E x \in ChainSets \cup Scenarios :
          \E y \in Variants(x) :
             chains = [p \in Params |-> IF p = "alpha" THEN x ELSE y]
    /\ tr = <<>>
    /\ gargs = [first |-> Rat(1, 2), last |-> Rat(1, 2), intervals |-> 1]
    /\ gpc = "idle"

\* geweke(tr, ...) alongside gelman_rubin(bioassay_trace)
InitGeweke ==
    /\ \E x \in Demo : chains = [p \in Params |-> x]
    /\ tr \in Traces
    /\ gargs \in GewekeArgs
    /\ gpc = "z"

(***************************************************************************)
(* The notebook session.  bioassay_trace is assigned by three cells; the   *)
(* cells gelman_rubin(bioassay_trace) and effective_n(bioassay_trace)      *)
(* read whatever the name is bound to when they run.  A trace is kept as   *)
(* its shape <<number of chains, samples per chain>>.                      *)
(***************************************************************************)
MetropolisDraws == 1000
LongDraws == 10000
ParallelDraws == 1000
NJobs == 2

\* sample(draws), but forgetting njobs
Sample_OneChain(draws, njobs) == <<1, draws>>

\* sample(draws, njobs=...): njobs chains of `draws` samples each
Sample(draws, njobs) == <<njobs, draws>>

\* the cells that touch bioassay_trace, from the top of the notebook down
CellOrder == <<"metropolis", "long", "parallel", "gelman_rubin", "effective_n">>
Cells == {CellOrder[i] : i \in 1..Len(CellOrder)}

\* Run All, or cells run one by one in an order of the user's choosing
Orders == {"top-to-bottom", "any"}

FreshNotebook(order) ==
    [order |-> order, ran |-> <<>>, bioassay_trace |-> None, calls |-> <<>>]

\* each cell is run once; Run All takes them in the order of the notebook
Runnable(c) ==
    /\ \A i \in 1..Len(nb.ran) : nb.ran[i] # c
    /\ nb.order = "top-to-bottom" => CellOrder[Len(nb.ran) + 1] = c

\* the session after cell c has bound bioassay_trace to a trace
Assign(c, trace) ==
    [nb EXCEPT !.ran = Append(@, c), !.bioassay_trace = Some(trace)]

\* the session after diagnostics cell c: called with what bioassay_trace
\* is bound to, after the cells in `before`
Diagnose(c) ==
    [nb EXCEPT !.ran = Append(@, c),
               !.calls = Append(@, [cell |-> c, arg |-> nb.bioassay_trace,
                                    before |-> nb.ran])]

\* bioassay_trace = sample(1000, step=step)
CellMetropolis ==
    /\ Runnable("metropolis")
    /\ nb' = Assign("metropolis", Sample(MetropolisDraws, 1))
    /\ UNCHANGED <<chains, tr, gargs, build, grvars, gwvars>>

\* bioassay_trace = sample(10000)
CellLong ==
    /\ Runnable("long")
    /\ nb' = Assign("long", Sample(LongDraws, 1))
    /\ UNCHANGED <<chains, tr, gargs, build, grvars, gwvars>>

\* bioassay_trace = sample(1000, njobs=2, start=[...])
CellParallel ==
    /\ Runnable("parallel")
    /\ nb' = Assign("parallel", Sample(ParallelDraws, NJobs))
    /\ UNCHANGED <<chains, tr, gargs, build, grvars, gwvars>>

\* gelman_rubin(bioassay_trace)
CellGelmanRubin ==
    /\ Runnable("gelman_rubin")
    /\ nb' = Diagnose("gelman_rubin")
    /\ UNCHANGED <<chains, tr, gargs, build, grvars, gwvars>>

\* effective_n(bioassay_trace)
CellEffectiveN ==
    /\ Runnable("effective_n")
    /\ nb' = Diagnose("effective_n")
    /\ UNCHANGED <<chains, tr, gargs, build, grvars, gwvars>>

Init ==
    /\ InitCalls
    /\ nb = FreshNotebook("top-to-bottom")
    /\ (InitGelmanRubin \/ InitGeweke)

\* a division by zero ends the call
Fail(p, restIsZero) ==
    /\ \E bld \in Builds(build) :
          /\ build' = bld
          /\ outcome' = [outcome EXCEPT ![p] = DivByZero(bld, restIsZero)]
    /\ pc' = [pc EXCEPT ![p] = "done"]

\* B, the between-chain variance: divides by m-1
CalcB(p) ==
    /\ pc[p] = "B"
    /\ trail' = [trail EXCEPT ![p] = Append(@, "B")]
    /\ IF NumChains(chains[p]) - 1 = 0
       THEN /\ Fail(p, RatIsZero(BetweenSum(chains[p])))
            /\ UNCHANGED B
       ELSE /\ B' = [B EXCEPT ![p] = Some(BetweenVar(chains[p]))]
            /\ pc' = [pc EXCEPT ![p] = "W"]
            /\ UNCHANGED <<outcome, build>>
    /\ UNCHANGED <<inputs, gwvars, W, Vhat, rhat>>

\* W computed after centring the chains in place
CalcW_InPlace(p) ==
    /\ pc[p] = "W"
    /\ trail' = [trail EXCEPT ![p] = Append(@, "W")]
    /\ chains' = [chains EXCEPT ![p] =
          [j \in 1..Len(@) |-> [i \in 1..Len(@[j]) |->
              @[j][i] - (SumInts(@[j]) \div Len(@[j]))]]]
    /\ IF ChainLen(chains[p]) - 1 = 0
       THEN /\ Fail(p, TRUE)
            /\ UNCHANGED W
       ELSE /\ W' = [W EXCEPT ![p] = Some(WithinVar(chains[p]))]
            /\ pc' = [pc EXCEPT ![p] = "Vhat"]
            /\ UNCHANGED <<outcome, build>>
    /\ UNCHANGED <<tr, gargs, nb, gwvars, B, Vhat, rhat>>

\* W, the within-chain variance: divides by n-1
CalcW(p) ==
    /\ pc[p] = "W"
    /\ trail' = [trail EXCEPT ![p] = Append(@, "W")]
    /\ IF ChainLen(chains[p]) - 1 = 0
       THEN /\ Fail(p, TRUE)
            /\ UNCHANGED W
       ELSE /\ W' = [W EXCEPT ![p] = Some(WithinVar(chains[p]))]
            /\ pc' = [pc EXCEPT ![p] = "Vhat"]
            /\ UNCHANGED <<outcome, build>>
    /\ UNCHANGED <<inputs, gwvars, B, Vhat, rhat>>

\* Var-hat computed from a B kept in one place for all nodes
CalcVhat_SharedB(p) ==
    /\ pc[p] = "Vhat"
    /\ trail' = [trail EXCEPT ![p] = Append(@, "Vhat")]
    /\ Vhat' = [Vhat EXCEPT ![p] =
                  Some(VarHat(ChainLen(chains[p]), Val(W[p]),
                              IF B["alpha"] # None THEN Val(B["alpha"])
                                                   ELSE Val(B[p])))]
    /\ pc' = [pc EXCEPT ![p] = "R"]
    /\ UNCHANGED <<inputs, build, gwvars, B, W, rhat, outcome>>

\* Var-hat, the estimate of the marginal posterior variance
CalcVhat(p) ==
    /\ pc[p] = "Vhat"
    /\ trail' = [trail EXCEPT ![p] = Append(@, "Vhat")]
    /\ Vhat' = [Vhat EXCEPT ![p] =
                  Some(VarHat(ChainLen(chains[p]), Val(W[p]), Val(B[p])))]
    /\ pc' = [pc EXCEPT ![p] = "R"]
    /\ UNCHANGED <<inputs, build, gwvars, B, W, rhat, outcome>>

\* R-hat, the potential scale reduction: divides by W
CalcR(p) ==
    /\ pc[p] = "R"
    /\ trail' = [trail EXCEPT ![p] = Append(@, "R")]
    /\ IF RatIsZero(Val(W[p]))
       THEN /\ Fail(p, RatIsZero(Val(Vhat[p])))
            /\ UNCHANGED rhat
       ELSE /\ rhat' = [rhat EXCEPT ![p] = Some(RHat(Val(Vhat[p]), Val(W[p])))]
            /\ outcome' = [outcome EXCEPT ![p] = "value"]
            /\ pc' = [pc EXCEPT ![p] = "done"]
            /\ UNCHANGED build
    /\ UNCHANGED <<inputs, gwvars, B, W, Vhat>>

\* gelman_rubin(bioassay_trace): the formulas, for each stochastic node
gelman_rubin(p) == CalcB(p) \/ CalcW(p) \/ CalcVhat(p) \/ CalcR(p)

\* geweke, but returning before the last of the intervals
geweke_StopsOneShort ==
    /\ gpc = "z"
    /\ LET start == StartIndex(Len(tr), gargs, Len(z) + 1)
           a == FirstSlice(tr, gargs, start)
           b == LastSlice(tr, gargs, start)
           last == Len(z) + 2 >= gargs.intervals
       IN  IF a = <<>> \/ b = <<>>
           THEN \E bld \in Builds(build) :
                   /\ build' = bld
                   /\ IF bld = "trap"
                      THEN /\ zoutcome' = DivByZero(bld, TRUE)
                           /\ gpc' = "done"
                           /\ UNCHANGED z
                      ELSE /\ z' = Append(z, <<start, ZNan(a, b)>>)
                           /\ gpc' = IF last THEN "done" ELSE "z"
                           /\ zoutcome' = IF last THEN "value" ELSE zoutcome
           ELSE /\ z' = Append(z, <<start, ZScore(a, b)>>)
                /\ gpc' = IF last THEN "done" ELSE "z"
                /\ zoutcome' = IF last THEN "value" ELSE zoutcome
                /\ UNCHANGED build
    /\ UNCHANGED <<inputs, grvars>>

\* one z-score of geweke(tr, first, last, intervals); the mean of an empty
\* segment is 0/0
geweke ==
    /\ gpc = "z"
    /\ LET start == StartIndex(Len(tr), gargs, Len(z) + 1)
           a == FirstSlice(tr, gargs, start)
           b == LastSlice(tr, gargs, start)
           last == Len(z) + 1 = gargs.intervals
       IN  IF a = <<>> \/ b = <<>>
           THEN \E bld \in Builds(build) :
                   /\ build' = bld
                   /\ IF bld = "trap"
                      THEN /\ zoutcome' = DivByZero(bld, TRUE)
                           /\ gpc' = "done"
                           /\ UNCHANGED z
                      ELSE /\ z' = Append(z, <<start, ZNan(a, b)>>)
                           /\ gpc' = IF last THEN "done" ELSE "z"
                           /\ zoutcome' = IF last THEN "value" ELSE zoutcome
           ELSE /\ z' = Append(z, <<start, ZScore(a, b)>>)
                /\ gpc' = IF last THEN "done" ELSE "z"
                /\ zoutcome' = IF last THEN "value" ELSE zoutcome
                /\ UNCHANGED build
    /\ UNCHANGED <<inputs, grvars>>

Next == (\E p \in Params : gelman_rubin(p)) \/ geweke

Spec == Init /\ [][Next]_vars

\* geweke(tr, first, last, intervals) on its own: the notebook's call and
\* calls on short chains
InitGewekeAlone ==
    /\ InitCalls
    /\ nb = FreshNotebook("top-to-bottom")
    /\ chains = [p \in Params |-> << <<1, 2, 3>>, <<1, 2, 4>> >>]
    /\ \/ tr \in Traces /\ gargs \in GewekeArgsAny
       \/ tr = LongTrace /\ gargs \in NotebookGewekeArgs
    /\ gpc = "z"

NextGeweke == geweke

SpecGeweke == InitGewekeAlone /\ [][NextGeweke]_vars

\* the notebook's cells, none of the calls' steps taken
InitNotebook ==
    /\ InitCalls
    /\ chains = [p \in Params |-> << <<1, 2, 3>>, <<1, 2, 4>> >>]
    /\ tr = <<>>
    /\ gargs = [first |-> Rat(1, 2), last |-> Rat(1, 2), intervals |-> 1]
    /\ gpc = "idle"
    /\ \E order \in Orders : nb = FreshNotebook(order)

NextNotebook ==
    \/ CellMetropolis
    \/ CellLong
    \/ CellParallel
    \/ CellGelmanRubin
    \/ CellEffectiveN

SpecNotebook == InitNotebook /\ [][NextNotebook]_vars

(***************************************************************************)
(* The quantities the claims speak of, written over the integers.  With    *)
(* s_j the sum of chain j and T the sum of all samples:                    *)
(*   W = WNum / (m (n-1) n^2),   WNum = sum_j sum_i (n theta_ij - s_j)^2   *)
(*   B = BNum / ((m-1) m^2 n),   BNum = sum_j (m s_j - T)^2                *)
(*   sum_j (mean_j - grand mean)^2 = BNum / (m^2 n^2)                      *)
(***************************************************************************)
Total(x) == SumInts([j \in 1..Len(x) |-> SumInts(x[j])])

WNum(x) ==
    SumInts([j \in 1..Len(x) |->
        SumInts([i \in 1..Len(x[j]) |->
            (Len(x[j]) * x[j][i] - SumInts(x[j])) *
            (Len(x[j]) * x[j][i] - SumInts(x[j]))])])

BNum(x) ==
    SumInts([j \in 1..Len(x) |->
        (Len(x) * SumInts(x[j]) - Total(x)) *
        (Len(x) * SumInts(x[j]) - Total(x))])

\* A ChainSet: at least 2 chains, all of one length, at least 2
Valid(x) ==
    /\ Len(x) >= 2
    /\ \A j \in 1..Len(x) : Len(x[j]) = Len(x[1])
    /\ Len(x[1]) >= 2

SameShape(x, y) == Len(x) = Len(y) /\ Len(x[1]) = Len(y[1])
AllIdentical(x) == \A j \in 1..Len(x) : x[j] = x[1]
IsPermutationOf(y, x) ==
    /\ Len(y) = Len(x)
    /\ \E f \in Permutations(1..Len(x)) : y = Permute(x, f)
IsShiftOf(y, x) ==
    /\ SameShape(x, y)
    /\ \A j \in 1..Len(x) : \A i \in 1..Len(x[j]) :
          y[j][i] - x[j][i] = y[1][1] - x[1][1]

Done(p) == pc[p] = "done"
Returned(p) == Done(p) /\ outcome[p] = "value"

\* (a/b) sqrt(c), squared and compared
SurdWellFormed(r) == r.a >= 0 /\ r.b > 0 /\ r.c >= 1
SurdLess(r, s) == r.a * r.a * r.c * s.b * s.b < s.a * s.a * s.c * r.b * r.b
One == [a |-> 1, b |-> 1, c |-> 1]

\* C1: for a valid ChainSet with W # 0 the call returns the non-negative R
\* with R*R*W = Var-hat, Var-hat = ((n-1)/n) W + (1/n) B.  Multiplied out by
\* b^2 m^2 (m-1) (n-1) n^3 :
\*   a^2 c WNum m (m-1) n = b^2 (WNum m (m-1) (n-1) + BNum (n-1) n)
C1_RhatIsRootOfVarHatOverW ==
    \A p \in Params :
        LET x == chains[p]
            m == Len(x)
            n == Len(x[1])
        IN  (Done(p) /\ Valid(x) /\ WNum(x) # 0) =>
               /\ outcome[p] = "value"
               /\ rhat[p] # None
               /\ SurdWellFormed(Val(rhat[p]))
               /\ LET r == Val(rhat[p])
                  IN  r.a * r.a * r.c * WNum(x) * m * (m - 1) * n
                      = r.b * r.b * (WNum(x) * m * (m - 1) * (n - 1)
                                     + BNum(x) * (n - 1) * n)

C1_Witness ==
    \E p \in Params :
        /\ chains[p] = << <<0, 2, 4>>, <<1, 1, 4>>, <<3, 5, 7>> >>
        /\ Returned(p)
        /\ BNum(chains[p]) # 0

\* C2 as stated: identical chains give R-hat = 1.0 exactly
C2_IdenticalChainsGiveOne ==
    \A p \in Params :
        (Done(p) /\ Valid(chains[p]) /\ AllIdentical(chains[p])) =>
            /\ outcome[p] = "value"
            /\ rhat[p] = Some(One)

\* C2 amended: identical chains (B = 0) with W # 0 give R-hat squared =
\* (n-1)/n, so R-hat = sqrt((n-1)/n) < 1; identical constant chains (W = 0)
\* give no R-hat at all.
C2_IdenticalChainsGiveRootOfNm1OverN ==
    \A p \in Params :
        LET x == chains[p]
            n == Len(x[1])
        IN  (Done(p) /\ Valid(x) /\ AllIdentical(x)) =>
               IF WNum(x) # 0
               THEN /\ outcome[p] = "value"
                    /\ rhat[p] # None
                    /\ SurdWellFormed(Val(rhat[p]))
                    /\ Val(rhat[p]).a * Val(rhat[p]).a * Val(rhat[p]).c * n
                       = Val(rhat[p]).b * Val(rhat[p]).b * (n - 1)
                    /\ SurdLess(Val(rhat[p]), One)
               ELSE /\ outcome[p] # "value"
                    /\ rhat[p] = None

\* [1,2,3], [1,2,3] gives sqrt(2/3) = (1/3) sqrt(6)
C2_Witness ==
    \E p \in Params :
        /\ chains[p] = << <<1, 2, 3>>, <<1, 2, 3>> >>
        /\ Returned(p)
        /\ rhat[p] = Some([a |-> 1, b |-> 3, c |-> 6])

C6_SpreadIncreasesRhat ==
    /\ \A p \in Params : Returned(p) => SurdWellFormed(Val(rhat[p]))
    /\ \A p, q \in Params :
          ( /\ Done(p) /\ Done(q)
            /\ Valid(chains[p]) /\ Valid(chains[q])
            /\ SameShape(chains[p], chains[q])
            /\ WNum(chains[p]) = WNum(chains[q])
            /\ WNum(chains[p]) # 0
            /\ BNum(chains[p]) < BNum(chains[q]) ) =>
               /\ Returned(p) /\ Returned(q)
               /\ SurdLess(Val(rhat[p]), Val(rhat[q]))

C6_Witness ==
    \E p, q \in Params :
        /\ Returned(p) /\ Returned(q)
        /\ SameShape(chains[p], chains[q])
        /\ WNum(chains[p]) = WNum(chains[q])
        /\ 0 < BNum(chains[p])
        /\ BNum(chains[p]) < BNum(chains[q])
        /\ SurdLess(Val(rhat[p]), Val(rhat[q]))

\* C7: reordering the chains changes nothing: same outcome, same R-hat
C7_PermutationInvariant ==
    \A p, q \in Params :
        (Done(p) /\ Done(q) /\ IsPermutationOf(chains[q], chains[p])) =>
            /\ outcome[q] = outcome[p]
            /\ rhat[q] = rhat[p]

C7_Witness ==
    \E p, q \in Params :
        /\ Len(chains[p]) = 3
        /\ IsPermutationOf(chains[q], chains[p])
        /\ chains[q][1] # chains[p][1]
        /\ Returned(p) /\ Returned(q)
        /\ rhat[q] = rhat[p]

\* C8: adding one constant to every sample of a valid ChainSet changes
\* nothing: same W, same B, same R-hat or same undefined outcome
C8_ShiftInvariant ==
    \A p, q \in Params :
        (Done(p) /\ Done(q) /\ Valid(chains[p])
            /\ IsShiftOf(chains[q], chains[p])) =>
            /\ outcome[q] = outcome[p]
            /\ B[q] = B[p]
            /\ W[q] = W[p]
            /\ rhat[q] = rhat[p]

C8_Witness ==
    \E p, q \in Params :
        /\ IsShiftOf(chains[q], chains[p])
        /\ chains[q][1][1] # chains[p][1][1]
        /\ Returned(p) /\ Returned(q)
        /\ BNum(chains[p]) # 0
        /\ rhat[q] = rhat[p]

\* C9: the calls only read: the chains passed in and geweke's arguments never
\* change, and a step of one call changes nothing but that call's own
\* intermediate values and result
OwnOnly(who) ==
    /\ \A q \in Params \ {who} :
          /\ pc'[q] = pc[q] /\ trail'[q] = trail[q]
          /\ B'[q] = B[q] /\ W'[q] = W[q] /\ Vhat'[q] = Vhat[q]
          /\ rhat'[q] = rhat[q] /\ outcome'[q] = outcome[q]
    /\ who # "geweke" => UNCHANGED gwvars

AloneOutcome(x, bld) ==
    IF Len(x) = 1 \/ Len(x[1]) = 1 THEN DivByZero(bld, TRUE)
    ELSE IF WNum(x) = 0 THEN DivByZero(bld, BNum(x) = 0)
    ELSE "value"

AloneRhat(x) ==
    LET m == Len(x)
        n == Len(x[1])
    IN  IF m = 1 \/ n = 1 \/ WNum(x) = 0 THEN None
        ELSE Some(SqrtRat(Rat(WNum(x) * m * (m - 1) * (n - 1)
                                + BNum(x) * (n - 1) * n,
                              WNum(x) * m * (m - 1) * n)))

\* geweke run alone: its loop over the intervals
RECURSIVE GewekeAlone(_, _, _, _)
GewekeAlone(x, args, bld, zs) ==
    IF Len(zs) = args.intervals THEN [z |-> zs, outcome |-> "value"]
    ELSE LET start == StartIndex(Len(x), args, Len(zs) + 1)
             a == FirstSlice(x, args, start)
             b == LastSlice(x, args, start)
         IN  IF a = <<>> \/ b = <<>>
             THEN IF bld = "trap"
                  THEN [z |-> zs, outcome |-> "ZeroDivisionError"]
                  ELSE GewekeAlone(x, args, bld, Append(zs, <<start, ZNan(a, b)>>))
             ELSE GewekeAlone(x, args, bld, Append(zs, <<start, ZScore(a, b)>>))

GewekeValid(x, args) ==
    /\ 0 < args.first.num /\ args.first.num < args.first.den
    /\ 0 < args.last.num /\ args.last.num < args.last.den
    /\ args.intervals >= 1
    /\ \A k \in 1..args.intervals :
          /\ FirstSlice(x, args, StartIndex(Len(x), args, k)) # <<>>
          /\ LastSlice(x, args, StartIndex(Len(x), args, k)) # <<>>

GewekeInvalid(x, args) ==
    \/ args.first.num <= 0 \/ args.first.num > args.first.den
    \/ args.last.num <= 0 \/ args.last.num > args.last.den
    \/ \E k \in 1..args.intervals :
          \/ FirstSlice(x, args, StartIndex(Len(x), args, k)) = <<>>
          \/ LastSlice(x, args, StartIndex(Len(x), args, k)) = <<>>

RSquared(r) == Rat(r.a * r.a * r.c, r.b * r.b)
RatLess(p, q) == p.num * q.den < q.num * p.den

\* all chain means coincide (the chains have one length)
SameMeans(x) == \A j \in 1..Len(x) : SumInts(x[j]) = SumInts(x[1])

\* C13: for a valid ChainSet with W # 0 the returned R-hat and the B and W
\* the call computed satisfy R-hat^2 = (n-1)/n + B/(n W); R-hat^2 is at
\* least (n-1)/n, and equals it exactly when all chain means coincide, which
\* is exactly when B = 0; R-hat = 1 exactly when B = W.
C13_RhatSquaredDecomposition ==
    \A p \in Params :
        LET x == chains[p]
            n == Len(x[1])
            floor == Rat(n - 1, n)
        IN  (Done(p) /\ Valid(x) /\ WNum(x) # 0) =>
               /\ Returned(p)
               /\ ~RatIsZero(Val(W[p]))
               /\ RSquared(Val(rhat[p])) =
                     RatAdd(floor, RatDiv(Val(B[p]),
                                          RatMul(RatInt(n), Val(W[p]))))
               /\ ~RatLess(RSquared(Val(rhat[p])), floor)
               /\ (RSquared(Val(rhat[p])) = floor) <=> SameMeans(x)
               /\ SameMeans(x) <=> RatIsZero(Val(B[p]))
               /\ (Val(rhat[p]) = One) <=> (Val(B[p]) = Val(W[p]))

\* chains [0, 1] and [1, 1]: B = W = 1/4 and R-hat = 1
C13_Witness ==
    /\ Valid(chains["alpha"]) /\ Returned("alpha")
    /\ ~SameMeans(chains["alpha"])
    /\ Val(B["alpha"]) = Val(W["alpha"])
    /\ ~RatIsZero(Val(W["alpha"]))
    /\ Val(rhat["alpha"]) = One

\* a ChainSet's shape: at least 2 chains, of one length, at least 2
ShapeValid(s) == s[1] >= 2 /\ s[2] >= 2

AssignCells == {"metropolis", "long", "parallel"}
RanBefore(c, cell) == \E i \in 1..Len(c.before) : c.before[i] = cell

\* C14: run top to bottom, gelman_rubin and effective_n are each called with
\* bioassay_trace bound to the last assignment, 2 chains of 1000 samples, a
\* valid ChainSet shape; gelman_rubin run after only single-chain
\* assignments is called with one chain, not a valid ChainSet shape.
C14_TraceAtDiagnostics ==
    \A k \in 1..Len(nb.calls) :
        LET c == nb.calls[k]
        IN  /\ nb.order = "top-to-bottom" =>
                  /\ c.arg = Some(<<2, 1000>>)
                  /\ ShapeValid(Val(c.arg))
                  /\ c.before[Len(c.before)] \in {"parallel", "gelman_rubin"}
            /\ (/\ c.cell = "gelman_rubin"
                /\ ~RanBefore(c, "parallel")
                /\ RanBefore(c, "metropolis") \/ RanBefore(c, "long")) =>
                  /\ c.arg # None
                  /\ Val(c.arg)[1] = 1
                  /\ ~ShapeValid(Val(c.arg))

\* Run All has finished: first gelman_rubin, then effective_n, both called
\* with the 2 x 1000 trace
C14_Witness ==
    /\ nb.order = "top-to-bottom"
    /\ nb.ran = CellOrder
    /\ Len(nb.calls) = 2
    /\ nb.calls[1].cell = "gelman_rubin" /\ nb.calls[1].arg = Some(<<2, 1000>>)
    /\ nb.calls[2].cell = "effective_n" /\ nb.calls[2].arg = Some(<<2, 1000>>)

====
